---- MODULE Spec2Model ----
(***************************************************************************)
(* TDAOptions.get_options_data (src/OptionsData.py): one capture of an     *)
(* options chain.  The provider's nested response is flattened into a list *)
(* of contract dictionaries, loaded into a data frame, type-normalised     *)
(* column by column, keyed with symbol.epoch, filled and returned.  The    *)
(* whole body runs inside one try/except Exception.                        *)
(*                                                                         *)
(* Text is a sequence of one-character strings.  A value of the payload is *)
(* a record [k, n, s]: a number (k = "num", the integers stand for the     *)
(* provider's numbers), a text (k = "str"), a JSON null (k = "none") or a  *)
(* key the dictionary does not carry (k = "missing"); a cell of the data   *)
(* frame is a number, a text, None or NaN (k = "nan").  The pandas calls   *)
(* are modelled as pandas 1.x/2.x perform them.                            *)
(***************************************************************************)
EXTENDS Integers, Sequences, FiniteSets, TLC

VARIABLES raw, status, clock, pc, contracts, frame, exc, ret, printed, raised

vars == <<raw, status, clock, pc, contracts, frame, exc, ret, printed, raised>>

(***************************************************************************)
(* Bounds of the enumerated inputs.                                        *)
(***************************************************************************)
MaxExpiries == 2

MaxStrikes == 2

MaxDetails == 2

MaxUnderlyingLen == 2

MaxStrikeDigits == 1

(***************************************************************************)
(* Values and text.                                                        *)
(***************************************************************************)
Num(n) == [k |-> "num", n |-> n, s |-> <<>>]

Str(s) == [k |-> "str", n |-> 0, s |-> s]

None == [k |-> "none", n |-> 0, s |-> <<>>]

NaN == [k |-> "nan", n |-> 0, s |-> <<>>]

Missing == [k |-> "missing", n |-> 0, s |-> <<>>]

DigitChars == <<"0", "1", "2", "3", "4", "5", "6", "7", "8", "9">>

Digits == {DigitChars[i] : i \in 1..10}

DigitVal(c) == (CHOOSE i \in 1..10 : DigitChars[i] = c) - 1

IsDigits(s) == Len(s) > 0 /\ \A i \in 1..Len(s) : s[i] \in Digits

Drop(s, n) == SubSeq(s, n + 1, Len(s))

StartsWith(s, t) == Len(s) >= Len(t) /\ SubSeq(s, 1, Len(t)) = t

RECURSIVE NatToStr(_)
NatToStr(n) == IF n < 10 THEN <<DigitChars[n + 1]>>
               ELSE NatToStr(n \div 10) \o <<DigitChars[(n % 10) + 1]>>

\* str(n) of a Python int
IntToStr(n) == IF n < 0 THEN <<"-">> \o NatToStr(0 - n) ELSE NatToStr(n)

RECURSIVE DigitsToNat(_)
DigitsToNat(s) == IF Len(s) = 0 THEN 0
                  ELSE 10 * DigitsToNat(SubSeq(s, 1, Len(s) - 1)) + DigitVal(s[Len(s)])

\* int(text): an optional sign and decimal digits; anything else is a ValueError
IsIntText(s) == IF Len(s) > 0 /\ s[1] = "-" THEN IsDigits(Drop(s, 1)) ELSE IsDigits(s)

IntTextVal(s) == IF s[1] = "-" THEN 0 - DigitsToNat(Drop(s, 1)) ELSE DigitsToNat(s)

\* the text of a float64 cell holding the integer n: "7.0"
FloatRepr(n) == IntToStr(n) \o <<".", "0">>

\* text pandas parses as a number: an integer, or an integer followed by ".0"
\* (the model's numbers are the integers)
IsNumText(s) ==
    \/ IsIntText(s)
    \/ /\ Len(s) > 2
       /\ SubSeq(s, Len(s) - 1, Len(s)) = <<".", "0">>
       /\ IsIntText(SubSeq(s, 1, Len(s) - 2))

NumTextVal(s) == IF IsIntText(s) THEN IntTextVal(s)
                 ELSE IntTextVal(SubSeq(s, 1, Len(s) - 2))

(***************************************************************************)
(* The columns.                                                            *)
(***************************************************************************)
theColumns ==
    <<"putCall", "strikePrice", "symbol", "description", "bid", "ask", "lastPrice",
      "bidSize", "askSize", "lastSize", "highPrice", "lowPrice", "openPrice",
      "closePrice", "totalVolume", "quoteTimeInLong", "volatility", "delta",
      "gamma", "theta", "vega", "rho", "openInterest", "expirationDate",
      "daysToExpiration">>

Columns == {theColumns[i] : i \in 1..Len(theColumns)}

FloatCols ==
    <<"bid", "ask", "lastPrice", "highPrice", "lowPrice", "openPrice", "closePrice",
      "volatility", "delta", "gamma", "theta", "vega", "rho", "strikePrice">>

StrCols == <<"putCall", "symbol", "description">>

IntCols ==
    <<"bidSize", "askSize", "lastSize", "totalVolume", "quoteTimeInLong",
      "openInterest", "expirationDate", "daysToExpiration">>

SetOf(seq) == {seq[i] : i \in 1..Len(seq)}

\* the frame's columns when it is returned
FinalColumns ==
    (Columns \ {"description"}) \cup {"theDescription", "theDateTime", "primaryKey"}

(***************************************************************************)
(* clean_floats, clean_strings, clean_ints.                                *)
(***************************************************************************)
NullTokens ==
    <<<<"N", "a", "N">>, <<"n", "a", "n">>, <<"N", "U", "L", "L">>,
      <<"N", "u", "l", "l">>, <<"n", "u", "l", "l">>>>

\* the alternative of 'NaN|nan|NULL|Null|null' that matches at the head of s (0: none)
TokenAt(s) ==
    IF \E i \in 1..Len(NullTokens) : StartsWith(s, NullTokens[i])
    THEN CHOOSE i \in 1..Len(NullTokens) :
            /\ StartsWith(s, NullTokens[i])
            /\ \A j \in 1..(i - 1) : ~StartsWith(s, NullTokens[j])
    ELSE 0

\* str.replace('NaN|nan|NULL|Null|null', '', regex=True): every match, left to right
RECURSIVE Scrub(_)
Scrub(s) ==
    IF Len(s) = 0 THEN <<>>
    ELSE IF TokenAt(s) # 0 THEN Scrub(Drop(s, Len(NullTokens[TokenAt(s)])))
    ELSE <<s[1]>> \o Scrub(Drop(s, 1))

\* the dtype pandas.DataFrame infers for a column of payload values
InferDtype(vals) ==
    IF \E i \in 1..Len(vals) : vals[i].k = "str" THEN "object"
    ELSE IF \A i \in 1..Len(vals) : vals[i].k = "none" THEN "object"
    ELSE IF \A i \in 1..Len(vals) : vals[i].k = "num" THEN "int64"
    ELSE "float64"

\* the cell the constructor stores: a missing key is NaN, and None is NaN in a
\* numeric column
FrameCell(v, dtype) ==
    IF v.k = "missing" THEN NaN
    ELSE IF v.k = "none" /\ dtype # "object" THEN NaN
    ELSE v

\* x.astype(str), one cell
AsTypeStr(c, dtype) ==
    CASE c.k = "str" -> c.s
      [] c.k = "nan" -> <<"n", "a", "n">>
      [] c.k = "none" -> <<"N", "o", "n", "e">>
      [] c.k = "num" -> IF dtype = "float64" THEN FloatRepr(c.n) ELSE IntToStr(c.n)

\* pd.to_numeric(errors='coerce'), one text: text that is no number is NaN
ToNumericCoerce(t) ==
    IF Len(t) > 0 /\ IsNumText(t) THEN [ok |-> TRUE, v |-> Num(NumTextVal(t))]
    ELSE [ok |-> TRUE, v |-> NaN]

\* pd.to_numeric, one text: [ok, v]; the empty text is NaN, other text that is no
\* number raises ValueError
ToNumeric(t) ==
    IF Len(t) = 0 THEN [ok |-> TRUE, v |-> NaN]
    ELSE IF IsNumText(t) THEN [ok |-> TRUE, v |-> Num(NumTextVal(t))]
    ELSE [ok |-> FALSE, v |-> NaN]

clean_floats(c, dtype) == ToNumeric(Scrub(AsTypeStr(c, dtype)))

clean_strings(c, dtype) == Str(AsTypeStr(c, dtype))

\* x.astype('int64'), one cell: [ok, v]; NaN, None and text that is no integer raise
clean_ints(c, dtype) ==
    CASE c.k = "num" -> [ok |-> TRUE, v |-> c]
      [] c.k = "str" -> IF IsIntText(c.s) THEN [ok |-> TRUE, v |-> Num(IntTextVal(c.s))]
                        ELSE [ok |-> FALSE, v |-> NaN]
      [] OTHER -> [ok |-> FALSE, v |-> NaN]

\* the exception clean_ints raises on a cell it cannot cast
IntCastError(c) == IF c.k = "none" THEN "TypeError" ELSE "ValueError"

(***************************************************************************)
(* The symbol.epoch key.                                                   *)
(***************************************************************************)
\* con.split('_')
RECURSIVE Split(_)
Split(s) ==
    IF \A i \in 1..Len(s) : s[i] # "_" THEN <<s>>
    ELSE LET p == CHOOSE i \in 1..Len(s) :
                      s[i] = "_" /\ \A j \in 1..(i - 1) : s[j] # "_"
         IN <<SubSeq(s, 1, p - 1)>> \o Split(Drop(s, p))

\* whether splitVar[1] and unpacked[0..5] exist (otherwise IndexError)
KeyDerivable(con) == Len(Split(con)) >= 2 /\ Len(Split(con)[2]) >= 6

\* the key with the date characters left in the provider's order
PrimaryKeyUnordered(con, epoch) ==
    LET splitVar == Split(con)
    IN splitVar[1] \o splitVar[2] \o <<".">> \o IntToStr(epoch)

\* the key without ''.join(unpacked[6:])
PrimaryKeyNoRest(con, epoch) ==
    LET splitVar == Split(con)
        unpacked == splitVar[2]
    IN splitVar[1]
       \o <<unpacked[5], unpacked[6], unpacked[1], unpacked[2], unpacked[3], unpacked[4]>>
       \o <<".">> \o IntToStr(epoch)

\* newStr of the loop body
PrimaryKey(con, epoch) ==
    LET splitVar == Split(con)
        unpacked == splitVar[2]
    IN splitVar[1]
       \o <<unpacked[5], unpacked[6], unpacked[1], unpacked[2], unpacked[3], unpacked[4]>>
       \o Drop(unpacked, 6)
       \o <<".">> \o IntToStr(epoch)

\* a loop body that keeps a symbol it cannot take apart as it is
SymbolEpochLenient(con, epoch) ==
    IF KeyDerivable(con) THEN [ok |-> TRUE, key |-> PrimaryKey(con, epoch)]
    ELSE [ok |-> TRUE, key |-> con \o <<".">> \o IntToStr(epoch)]

\* one pass of the loop over tdaSymbolList: [ok, key]; ok is FALSE when the body
\* raises IndexError
SymbolEpoch(con, epoch) ==
    IF KeyDerivable(con) THEN [ok |-> TRUE, key |-> PrimaryKey(con, epoch)]
    ELSE [ok |-> FALSE, key |-> <<>>]

(***************************************************************************)
(* Flattening: lines 93-111.                                               *)
(***************************************************************************)
\* dict(rawOptionsData).get(contract_type, {}): a missing group reads as empty
GetGroupDefault(rawv, contract_type) ==
    IF contract_type \in DOMAIN rawv THEN [ok |-> TRUE, g |-> rawv[contract_type]]
    ELSE [ok |-> TRUE, g |-> <<>>]

\* dict(rawOptionsData)[contract_type]: [ok, g]; a missing key raises KeyError
GetGroup(rawv, contract_type) ==
    IF contract_type \in DOMAIN rawv THEN [ok |-> TRUE, g |-> rawv[contract_type]]
    ELSE [ok |-> FALSE, g |-> <<>>]

\* the detail lists of one expiry, strike by strike
StrikeLists(expiry) == [k \in 1..Len(expiry.strikes) |-> expiry.strikes[k].details]

\* the detail lists of a side group in traversal order (expiry, then strike)
RECURSIVE GroupPairs(_)
GroupPairs(g) == IF Len(g) = 0 THEN <<>> ELSE StrikeLists(g[1]) \o GroupPairs(Tail(g))

\* contract[expiry][strike][-1]
LastDetail(details) == details[Len(details)]

\* contract[expiry][strike][0]
FirstDetail(details) == details[1]

\* the loop over one side group: [exc, out]; an empty detail list raises IndexError
FlattenGroup(rawv, contract_type) ==
    LET got == GetGroup(rawv, contract_type)
        pairs == GroupPairs(got.g)
    IN IF ~got.ok THEN [exc |-> "KeyError", out |-> <<>>]
       ELSE IF \E i \in 1..Len(pairs) : Len(pairs[i]) = 0
            THEN [exc |-> "IndexError", out |-> <<>>]
       ELSE [exc |-> "none", out |-> [i \in 1..Len(pairs) |-> FirstDetail(pairs[i])]]

\* for contract_type in ['callExpDateMap', 'putExpDateMap']: calls first, then puts
FlattenChain(rawv) ==
    LET calls == FlattenGroup(rawv, "callExpDateMap")
        puts == FlattenGroup(rawv, "putExpDateMap")
    IN IF calls.exc # "none" THEN calls
       ELSE IF puts.exc # "none" THEN puts
       ELSE [exc |-> "none", out |-> calls.out \o puts.out]

(***************************************************************************)
(* The data frame: lines 120-141.                                          *)
(***************************************************************************)
ColumnOf(rows, col) == [i \in 1..Len(rows) |-> rows[i][col]]

ColumnDtype(rows, col) == InferDtype(ColumnOf(rows, col))

\* pd.DataFrame(contracts, columns=theColumns), one cell
Cell(rows, i, col) == FrameCell(rows[i][col], ColumnDtype(rows, col))

\* the first exception the three normalisation loops raise ("none": no exception):
\* the float columns are cleaned first, the integer columns last
NormalizeError(rows) ==
    LET badFloat(i, col) == ~clean_floats(Cell(rows, i, col), ColumnDtype(rows, col)).ok
        badInt(i, col) == ~clean_ints(Cell(rows, i, col), ColumnDtype(rows, col)).ok
    IN IF \E i \in 1..Len(rows), j \in 1..Len(FloatCols) : badFloat(i, FloatCols[j])
       THEN "ValueError"
       ELSE IF \E i \in 1..Len(rows), j \in 1..Len(IntCols) : badInt(i, IntCols[j])
       THEN LET j == CHOOSE c \in 1..Len(IntCols) :
                        /\ \E i \in 1..Len(rows) : badInt(i, IntCols[c])
                        /\ \A d \in 1..(c - 1) : \A i \in 1..Len(rows) : ~badInt(i, IntCols[d])
                 i == CHOOSE r \in 1..Len(rows) :
                        /\ badInt(r, IntCols[j])
                        /\ \A q \in 1..(r - 1) : ~badInt(q, IntCols[j])
            IN IntCastError(Cell(rows, i, IntCols[j]))
       ELSE "none"

\* one row of the frame after the three loops, the stamp and the rename
NormalizedRow(rows, i, stamp) ==
    [c \in (Columns \ {"description"}) \cup {"theDescription", "theDateTime"} |->
        LET col == IF c = "theDescription" THEN "description" ELSE c
        IN IF c = "theDateTime" THEN Str(stamp)
           ELSE IF col \in SetOf(FloatCols)
                THEN clean_floats(Cell(rows, i, col), ColumnDtype(rows, col)).v
           ELSE IF col \in SetOf(IntCols)
                THEN clean_ints(Cell(rows, i, col), ColumnDtype(rows, col)).v
           ELSE clean_strings(Cell(rows, i, col), ColumnDtype(rows, col))]

(***************************************************************************)
(* fillna(0) and abs(delta): lines 170-173.                                *)
(***************************************************************************)
FillNa(c) == IF c.k \in {"nan", "none"} THEN Num(0) ELSE c

Abs(n) == IF n < 0 THEN 0 - n ELSE n

\* the delta left signed
AbsDeltaSigned(c) == c

\* abs(contracts['delta']), one cell
AbsDelta(c) == Num(Abs(c.n))

FinishedRow(row) ==
    [c \in DOMAIN row |-> IF c = "delta" THEN AbsDelta(FillNa(row[c])) ELSE FillNa(row[c])]

(***************************************************************************)
(* The inputs: provider responses, statuses and clock readings.            *)
(***************************************************************************)
SeqsUpTo(S, n) == UNION {[1..m -> S] : m \in 0..n}

CallText == <<"C", "A", "L", "L">>

PutText == <<"P", "U", "T">>

QQQ == <<"Q", "Q", "Q">>

\* the six date characters MMDDYY of expiry e
DateText(e) == <<"0", "1">> \o IntToStr(24 + e) \o <<"2", "3">>

\* a composite symbol of the provider: QQQ_012523P221
SymbolText(und, date, right, strike) == und \o <<"_">> \o date \o <<right>> \o strike

\* a complete detail object of side `side`, expiry e, strike k
BaseEntry(side, e, k) ==
    [c \in Columns |->
        CASE c = "putCall" -> Str(IF side = "C" THEN CallText ELSE PutText)
          [] c = "symbol" -> Str(SymbolText(QQQ, DateText(e), side, IntToStr(220 + k)))
          [] c = "description" -> Str(QQQ \o <<" ">> \o IntToStr(220 + k))
          [] c = "strikePrice" -> Num(220 + k)
          [] c = "delta" -> Num(IF side = "C" THEN 45 ELSE 0 - 55)
          [] c = "bid" -> Num(3)
          [] c = "ask" -> Num(4)
          [] OTHER -> Num(e + k)]

\* a further element of a detail list: provider noise, nothing in it is usable
NoiseEntry(side, e, k, j) ==
    [BaseEntry(side, e, k) EXCEPT
        !["symbol"] = Str(QQQ \o IntToStr(j)),
        !["bid"] = Str(<<"a", "b", "c">>),
        !["bidSize"] = Missing,
        !["delta"] = Num(0 - j)]

DetailList(side, e, k, d) ==
    [j \in 1..d |-> IF j = 1 THEN BaseEntry(side, e, k) ELSE NoiseEntry(side, e, k, j)]

\* a side group of nExp expiries with nStr strikes each; the pair `at` carries
\* `at.d` details, every other pair one
Group(side, nExp, nStr, at) ==
    [e \in 1..nExp |->
        [key |-> e,
         strikes |-> [k \in 1..nStr |->
            [key |-> k,
             details |-> DetailList(side, e, k,
                            IF at.side = side /\ at.e = e /\ at.k = k THEN at.d ELSE 1)]]]]

\* nExp = -1 stands for a response without the group
Chain(cExp, cStr, pExp, pStr, at) ==
    LET calls == [callExpDateMap |-> Group("C", cExp, cStr, at)]
        puts == [putExpDateMap |-> Group("P", pExp, pStr, at)]
    IN IF cExp < 0 /\ pExp < 0 THEN <<>>
       ELSE IF cExp < 0 THEN puts
       ELSE IF pExp < 0 THEN calls
       ELSE calls @@ puts

\* a chain of one call and nPut puts whose call detail is `entry`
ChainOf(entry, nPut) ==
    [callExpDateMap |-> <<[key |-> 1, strikes |-> <<[key |-> 1, details |-> <<entry>>]>>]>>,
     putExpDateMap |-> Group("P", nPut, 1, [side |-> "P", e |-> 0, k |-> 0, d |-> 1])]

\* a chain of one call and one put with the given symbols
ChainOfSymbols(s1, s2) ==
    [callExpDateMap |->
        <<[key |-> 1, strikes |->
            <<[key |-> 1, details |->
                <<[BaseEntry("C", 1, 1) EXCEPT !["symbol"] = Str(s1)]>>]>>]>>,
     putExpDateMap |->
        <<[key |-> 1, strikes |->
            <<[key |-> 1, details |->
                <<[BaseEntry("P", 1, 1) EXCEPT !["symbol"] = Str(s2)]>>]>>]>>]

\* text that stands for a number, with the number
NumericTexts == {[t |-> <<"1", "2">>, v |-> 12], [t |-> <<"-", "4">>, v |-> 0 - 4]}

JunkTexts == {<<"a", "b", "c">>, <<"N", "/", "A">>}

\* text that holds a null token and more
TokenInside ==
    {<<"1", "n", "u", "l", "l", "2">>, <<"-", "N", "a", "N", "7">>, <<"n", "u", "l", "l", "x">>}

NumericVals ==
    {Num(0 - 3), Num(0), Missing, None, Str(<<>>)}
    \cup {Str(NullTokens[i]) : i \in 1..Len(NullTokens)}
    \cup {Str(x.t) : x \in NumericTexts}
    \cup {Str(t) : t \in JunkTexts \cup TokenInside}

TextVals == {Missing, None, Str(<<>>), Num(7)}

SymbolVals ==
    TextVals \cup
    {Str(QQQ \o DateText(1) \o <<"P">> \o IntToStr(220)),
     Str(QQQ \o <<"_">> \o <<"0", "1", "2", "5">>),
     Str(<<"Q", "_">> \o DateText(1) \o <<"_", "P", "2", "2", "0">>),
     Str(SymbolText(QQQ, <<"0", "1", "2", "5", "2", "3">>, "P", IntToStr(220)))}

ValsOf(col) ==
    IF col = "symbol" THEN SymbolVals
    ELSE IF col \in SetOf(StrCols) THEN TextVals
    ELSE NumericVals

Underlyings == SeqsUpTo({"Q", "5"}, MaxUnderlyingLen)

StrikeTexts == SeqsUpTo({"5"}, MaxStrikeDigits)

\* symbols of one expiry; underlyings may hold digits, and a digit in the place of
\* the right indicator gives symbols that are not of the provider's form
SymbolPool ==
    {SymbolText(u, <<"5", "5", "5", "5", "5", "5">>, r, k) :
        u \in Underlyings, r \in {"C", "P", "5"}, k \in StrikeTexts}

\* time.time() and the strftime of the same moment in US/Eastern
Clocks ==
    {[epoch |-> 1700000000,
      stamp |-> <<"2", "0", "2", "3", "-", "1", "1", "-", "1", "4", " ",
                  "1", "7", ":", "1", "3", ":", "2", "0">>],
     [epoch |-> 1674657000,
      stamp |-> <<"2", "0", "2", "3", "-", "0", "1", "-", "2", "5", " ",
                  "0", "9", ":", "3", "0", ":", "0", "0">>]}

FirstClock == CHOOSE c \in Clocks : c.epoch = 1700000000

Shapes == {[nExp |-> 0 - 1, nStr |-> 1]} \cup {[nExp |-> 0, nStr |-> 1]}
          \cup [nExp : 1..MaxExpiries, nStr : 1..MaxStrikes]

\* responses of every shape, complete details only
InitShapes ==
    /\ \E cs \in Shapes, ps \in Shapes :
       \E at \in [side : {"C", "P"}, e : 1..MaxExpiries, k : 1..MaxStrikes, d : 0..MaxDetails] :
            raw = Chain(cs.nExp, cs.nStr, ps.nExp, ps.nStr, at)
    /\ status \in {200, 429}
    /\ clock = FirstClock

\* one or two contracts, one field of the call off the expected type
InitValues ==
    /\ \E col \in Columns : \E v \in ValsOf(col) : \E nPut \in 0..1 :
            raw = ChainOf([BaseEntry("C", 1, 1) EXCEPT ![col] = v], nPut)
    /\ status = 200
    /\ clock \in Clocks

\* one call and one put under any two symbols of the pool
InitSymbols ==
    /\ \E s1 \in SymbolPool, s2 \in SymbolPool : raw = ChainOfSymbols(s1, s2)
    /\ status = 200
    /\ clock = FirstClock

NoResult == [k |-> "None", rows |-> <<>>]

Pending == [k |-> "pending", rows |-> <<>>]

Init ==
    /\ InitShapes \/ InitValues \/ InitSymbols
    /\ pc = "request"
    /\ contracts = <<>>
    /\ frame = <<>>
    /\ exc = "none"
    /\ ret = Pending
    /\ printed = FALSE
    /\ raised = "none"

(***************************************************************************)
(* get_options_data, phase by phase.                                       *)
(***************************************************************************)
\* lines 83-90: the provider answered 429; the call sleeps and returns None
RateLimited ==
    /\ pc = "request"
    /\ status = 429
    /\ pc' = "done"
    /\ ret' = NoResult
    /\ UNCHANGED <<raw, status, clock, contracts, frame, exc, printed, raised>>

\* lines 91-111: the two loops over the side groups
Flatten ==
    /\ pc = "request"
    /\ status # 429
    /\ LET r == FlattenChain(raw)
       IN IF r.exc = "none"
          THEN /\ contracts' = r.out
               /\ pc' = "normalize"
               /\ exc' = exc
          ELSE /\ contracts' = contracts
               /\ pc' = "except"
               /\ exc' = r.exc
    /\ UNCHANGED <<raw, status, clock, frame, ret, printed, raised>>

\* lines 113-141: the frame, the stamp, the three clean_* loops, the rename
Normalize ==
    /\ pc = "normalize"
    /\ LET e == NormalizeError(contracts)
       IN IF e = "none"
          THEN /\ frame' = [i \in 1..Len(contracts) |-> NormalizedRow(contracts, i, clock.stamp)]
               /\ pc' = "keys"
               /\ exc' = exc
          ELSE /\ frame' = frame
               /\ pc' = "except"
               /\ exc' = e
    /\ UNCHANGED <<raw, status, clock, contracts, ret, printed, raised>>

\* lines 143-167: the primaryKey column; a symbol the loop cannot take apart
\* raises IndexError
DeriveKeys ==
    /\ pc = "keys"
    /\ IF \A i \in 1..Len(frame) : SymbolEpoch(frame[i]["symbol"].s, clock.epoch).ok
       THEN /\ frame' = [i \in 1..Len(frame) |->
                            frame[i] @@ ("primaryKey" :>
                                Str(SymbolEpoch(frame[i]["symbol"].s, clock.epoch).key))]
            /\ pc' = "fill"
            /\ exc' = exc
       ELSE /\ frame' = frame
            /\ pc' = "except"
            /\ exc' = "IndexError"
    /\ UNCHANGED <<raw, status, clock, contracts, ret, printed, raised>>

\* lines 169-175: fillna(0), abs(delta), return contracts
Finish ==
    /\ pc = "fill"
    /\ frame' = [i \in 1..Len(frame) |-> FinishedRow(frame[i])]
    /\ ret' = [k |-> "frame", rows |-> frame']
    /\ pc' = "done"
    /\ UNCHANGED <<raw, status, clock, contracts, exc, printed, raised>>

\* lines 177-182: except Exception: the traceback is printed, the call sleeps and
\* falls off its end (returns None); nothing is raised to the caller
HandleException ==
    /\ pc = "except"
    /\ printed' = TRUE
    /\ ret' = NoResult
    /\ pc' = "done"
    /\ UNCHANGED <<raw, status, clock, contracts, frame, exc, raised>>

Next ==
    \/ RateLimited
    \/ Flatten
    \/ Normalize
    \/ DeriveKeys
    \/ Finish
    \/ HandleException

Spec == Init /\ [][Next]_vars

(***************************************************************************)
(* What the claims speak of.                                               *)
(***************************************************************************)
SideNames == {"callExpDateMap", "putExpDateMap"}

MissingGroup == \E ct \in SideNames : ct \notin DOMAIN raw

EmptyDetail ==
    \E ct \in DOMAIN raw : \E e \in 1..Len(raw[ct]) : \E k \in 1..Len(raw[ct][e].strikes) :
        Len(raw[ct][e].strikes[k].details) = 0

MalformedChain == MissingGroup \/ EmptyDetail

\* the (expiry, strike) pairs of group g before expiry e
RECURSIVE PairsBefore(_, _)
PairsBefore(g, e) == IF e <= 1 THEN 0 ELSE PairsBefore(g, e - 1) + Len(g[e - 1].strikes)

PairCount(g) == PairsBefore(g, Len(g) + 1)

CompleteEntries ==
    {BaseEntry(sd, e, k) : sd \in {"C", "P"}, e \in 1..MaxExpiries, k \in 1..MaxStrikes}

HasSeparator(t) == \E i \in 1..Len(t) : t[i] = "_"

\* the symbol of flat record i as the key loop reads it
SymbolOf(i) == contracts[i]["symbol"].s

\* a finished capture of at least two flat records, one of them with a symbol
\* without the separator, every other symbol one the key loop can take apart, and
\* the type normalisation passed
C1_Batch ==
    /\ pc = "done"
    /\ status = 200
    /\ Len(contracts) >= 2
    /\ NormalizeError(contracts) = "none"
    /\ \E i \in 1..Len(contracts) :
        /\ contracts[i]["symbol"].k = "str"
        /\ ~HasSeparator(SymbolOf(i))
        /\ \A j \in (1..Len(contracts)) \ {i} :
            contracts[j]["symbol"].k = "str" /\ KeyDerivable(SymbolOf(j))

\* C1 as claimed: a record whose symbol lacks '_' fails alone: the other records of
\* the batch are normalized and returned, and the failure reaches the caller.
C1_IsolatedKeyFailure ==
    C1_Batch => /\ ret.k = "frame"
                /\ Len(ret.rows) = Len(contracts) - 1
                /\ raised # "none"

\* C1 as amended: the record without '_' makes the key loop raise IndexError, which
\* ends the whole capture: the handler prints the traceback, get_options_data
\* returns None with no record of the batch, and nothing is raised to the caller.
C1_KeyFailureAbortsCapture ==
    C1_Batch => /\ exc = "IndexError"
                /\ ret = NoResult
                /\ printed
                /\ raised = "none"

C1_Witness == C1_Batch /\ printed

C5_FlattenCompleteness ==
    (status = 200 /\ pc # "request" /\ ~MalformedChain) =>
        LET calls == raw["callExpDateMap"]
            puts == raw["putExpDateMap"]
            c == PairCount(calls)
            p == PairCount(puts)
        IN /\ Len(contracts) = c + p
           /\ \A e \in 1..Len(calls) : \A k \in 1..Len(calls[e].strikes) :
                contracts[PairsBefore(calls, e) + k] = calls[e].strikes[k].details[1]
           /\ \A e \in 1..Len(puts) : \A k \in 1..Len(puts[e].strikes) :
                contracts[c + PairsBefore(puts, e) + k] = puts[e].strikes[k].details[1]
           /\ (\A i \in 1..Len(contracts) : contracts[i] \in CompleteEntries) =>
                /\ exc = "none"
                /\ pc # "except"
                /\ pc = "done" => (ret.k = "frame" /\ Len(ret.rows) = c + p)

C5_Witness ==
    /\ pc = "done"
    /\ ret.k = "frame"
    /\ PairCount(raw["callExpDateMap"]) >= 2
    /\ PairCount(raw["putExpDateMap"]) >= 1
    /\ \E e \in 1..Len(raw["callExpDateMap"]) :
        \E k \in 1..Len(raw["callExpDateMap"][e].strikes) :
            Len(raw["callExpDateMap"][e].strikes[k].details) >= 2

Returned == pc = "done" /\ ret.k = "frame"

NumericCols == SetOf(FloatCols) \cup SetOf(IntCols)

TokenTexts == SetOf(NullTokens)

\* C3: a declared-numeric field (float-typed or integer-typed) holding one of the
\* tokens NaN, nan, NULL, Null, null is the number zero in the normalized record,
\* and the record is returned.
C3_NullTokenZero ==
    (pc = "done" /\ status = 200) =>
        \A i \in 1..Len(contracts) : \A c \in NumericCols :
            (contracts[i][c].k = "str" /\ contracts[i][c].s \in TokenTexts) =>
                (ret.k = "frame" /\ ret.rows[i][c] = Num(0))

\* the fields of flat record i are numbers, texts, absent or null, each where it
\* belongs, and the symbol is one the key loop can take apart
PlainRecord(i) ==
    /\ \A c \in NumericCols : contracts[i][c].k \in {"num", "missing", "none"}
    /\ \A c \in {"putCall", "description"} : contracts[i][c].k \in {"str", "missing", "none"}
    /\ contracts[i]["symbol"].k = "str"
    /\ KeyDerivable(SymbolOf(i))

\* C4: whatever fields of an input record are absent or null, normalization
\* returns the record with a number in every numeric field and a text in every
\* textual field.
C4_NoNullField ==
    (pc = "done" /\ status = 200 /\ ~MalformedChain
        /\ \A i \in 1..Len(contracts) : PlainRecord(i)) =>
        /\ ret.k = "frame"
        /\ Len(ret.rows) = Len(contracts)
        /\ \A i \in 1..Len(ret.rows) : \A c \in FinalColumns :
            ret.rows[i][c].k = (IF c \in NumericCols THEN "num" ELSE "str")

\* the decimal text of the clock readings, digit by digit
EpochDigits(e) ==
    IF e = 1700000000 THEN <<"1", "7", "0", "0", "0", "0", "0", "0", "0", "0">>
    ELSE <<"1", "6", "7", "4", "6", "5", "7", "0", "0", "0">>

\* exactly one separator and at least six characters after it
OneSeparatorShape(t) ==
    /\ Cardinality({i \in 1..Len(t) : t[i] = "_"}) = 1
    /\ Len(t) - (CHOOSE i \in 1..Len(t) : t[i] = "_") >= 6

\* <underlying> YY MM DD <rest> . <epoch>
ExpectedKey(t, e) ==
    LET p == CHOOSE i \in 1..Len(t) : t[i] = "_"
    IN SubSeq(t, 1, p - 1)
       \o <<t[p + 5], t[p + 6]>> \o <<t[p + 1], t[p + 2]>> \o <<t[p + 3], t[p + 4]>>
       \o SubSeq(t, p + 7, Len(t))
       \o <<".">> \o EpochDigits(e)

ExampleSymbol == <<"Q", "Q", "Q", "_", "0", "1", "2", "5", "2", "3", "P", "2", "2", "0">>

ExampleKey ==
    <<"Q", "Q", "Q", "2", "3", "0", "1", "2", "5", "P", "2", "2", "0", ".",
      "1", "7", "0", "0", "0", "0", "0", "0", "0", "0">>

\* C6: for a symbol <underlying>_<MMDDYY><rest> with exactly one separator and at
\* least six characters after it, primaryKey is <underlying> YY MM DD <rest>, a
\* dot and the capture epoch in decimal; QQQ_012523P220 at epoch 1700000000 gives
\* QQQ230125P220.1700000000.
C6_KeyDerivation ==
    Returned =>
        \A i \in 1..Len(contracts) :
            (contracts[i]["symbol"].k = "str" /\ OneSeparatorShape(SymbolOf(i))) =>
                /\ ret.rows[i]["primaryKey"] = Str(ExpectedKey(SymbolOf(i), clock.epoch))
                /\ (SymbolOf(i) = ExampleSymbol /\ clock.epoch = 1700000000) =>
                        ret.rows[i]["primaryKey"].s = ExampleKey

C6_Witness ==
    /\ Returned
    /\ clock.epoch = 1700000000
    /\ \E i \in 1..Len(contracts) :
        SymbolOf(i) = ExampleSymbol /\ ret.rows[i]["primaryKey"].s = ExampleKey

\* <underlying>_<six digits><C or P><strike digits>
WellFormed(t) ==
    /\ Cardinality({i \in 1..Len(t) : t[i] = "_"}) = 1
    /\ LET p == CHOOSE i \in 1..Len(t) : t[i] = "_"
       IN /\ Len(t) - p >= 7
          /\ \A i \in (p + 1)..(p + 6) : t[i] \in Digits
          /\ t[p + 7] \in {"C", "P"}
          /\ \A i \in (p + 8)..Len(t) : t[i] \in Digits

UnderlyingLen(t) == (CHOOSE i \in 1..Len(t) : t[i] = "_") - 1

\* C7: within one capture, records that carry distinct well-formed symbols
\* (<underlying>_<six digits><C or P><strike digits>) receive distinct primaryKey
\* values.
C7_KeyUniqueness ==
    Returned =>
        \A i, j \in 1..Len(contracts) :
            (/\ i # j
             /\ contracts[i]["symbol"].k = "str" /\ WellFormed(SymbolOf(i))
             /\ contracts[j]["symbol"].k = "str" /\ WellFormed(SymbolOf(j))
             /\ SymbolOf(i) # SymbolOf(j)) =>
                ret.rows[i]["primaryKey"] # ret.rows[j]["primaryKey"]

C7_Witness ==
    /\ Returned
    /\ \E i, j \in 1..Len(contracts) :
        /\ WellFormed(SymbolOf(i)) /\ WellFormed(SymbolOf(j))
        /\ UnderlyingLen(SymbolOf(i)) < UnderlyingLen(SymbolOf(j))
        /\ SymbolOf(j)[UnderlyingLen(SymbolOf(j))] \in Digits
        /\ ret.rows[i]["primaryKey"] # ret.rows[j]["primaryKey"]

\* C8: whatever the input delta (positive, negative, zero, a number as text, a
\* null token, absent or null) and whatever the side, the delta of a returned record
\* is >= 0 and is the absolute value of the parsed input, 0 when there was none.
C8_DeltaMagnitude ==
    Returned =>
        \A i \in 1..Len(contracts) :
            LET v == contracts[i]["delta"]
                d == ret.rows[i]["delta"]
            IN /\ d.k = "num"
               /\ d.n >= 0
               /\ v.k = "num" => d.n = (IF v.n < 0 THEN 0 - v.n ELSE v.n)
               /\ v.k \in {"missing", "none"} => d.n = 0
               /\ (v.k = "str" /\ v.s \in TokenTexts) => d.n = 0
               /\ \A x \in NumericTexts :
                    v = Str(x.t) => d.n = (IF x.v < 0 THEN 0 - x.v ELSE x.v)

C8_Witness ==
    /\ Returned
    /\ \E i \in 1..Len(contracts) :
        /\ contracts[i]["putCall"] = Str(CallText)
        /\ contracts[i]["delta"].k = "num"
        /\ contracts[i]["delta"].n < 0
        /\ ret.rows[i]["delta"].n = 0 - contracts[i]["delta"].n

\* text that is neither a null token nor a number
Unparseable(v) == v.k = "str" /\ v.s \notin TokenTexts /\ ~IsNumText(v.s)

Rejected(v, c) ==
    /\ v.k = "str"
    /\ v.s \notin TokenTexts
    /\ IF c \in SetOf(FloatCols) THEN Len(Scrub(v.s)) > 0 /\ ~IsNumText(Scrub(v.s))
       ELSE ~IsIntText(v.s)

C10_WholeValueScrub ==
    pc = "done" =>
        \A i \in 1..Len(contracts) : \A c \in SetOf(FloatCols) :
            (contracts[i][c].k = "str" /\ contracts[i][c].s \in TokenInside) =>
                ~(ret.k = "frame" /\ ret.rows[i][c].k = "num" /\ ret.rows[i][c].n # 0)

====
